---- MODULE Spec2Model ----
(***************************************************************************)
(* typed-react-form: the FormState node (values, defaultValues, dirty,     *)
(* errors, state, listener registry), the parent/child composition of      *)
(* useChildForm and the ArrayField sequence mutators of                    *)
(* src/example/src/App.tsx.                                                *)
(*                                                                         *)
(* Containers live in a heap of cells addressed by object identity, so     *)
(* that `===`, in-place writes (this.values[key] = value) and aliasing     *)
(* between a parent's field, a child's values and the default values are   *)
(* what the code makes them.  One action is one call of a public method    *)
(* (or one run of a hook's render/effect) together with every listener it  *)
(* synchronously triggers; the listener invocations of the call are        *)
(* recorded, in order, in `last.log`.                                      *)
(***************************************************************************)
EXTENDS Integers, Sequences, FiniteSets, TLC

\* ---------------------------------------------------------------- bounds
MaxScalar == 2      \* scalar field values are 1..MaxScalar
MaxLen == 2         \* longest sequence a field may hold
MaxAddr == 12       \* heap cells available to one call
MaxId == 10         \* FormState.currentId stops registrations here
MaxDepth == 4       \* deepest nesting of listener-triggered setter calls
MaxSteps == 3       \* calls made on a mounted parent and child
MountSteps == 4     \* calls made while the forms are being mounted
DispatchSteps == 4  \* calls made on a form whose callbacks change the registry
SeqLen == 3         \* longest sequence the sequence mutators start from
MutatorSteps == 3   \* calls made on a mounted ArrayField
ListenerSteps == 3  \* calls made on the Listener-based Form

Scalars == 1..MaxScalar
Addr == 1..MaxAddr
NoId == -1          \* skipId === undefined
Null == 0           \* an absent container (undefined / null)
ParentKey == "list" \* the field useChildForm(parent, name) is derived for

\* ------------------------------------------------------- values and cells
\* A field value: a scalar, or a reference to a container cell.
V(s) == [ref |-> FALSE, v |-> s]
R(a) == [ref |-> TRUE, v |-> a]
Undefined == [ref |-> FALSE, v |-> 0]

\* A container: arr tells an array from a plain object, f maps keys to values.
Cell(arr, f) == [arr |-> arr, f |-> f]
EmptyCell == Cell(TRUE, <<>>)

Get(f, k) == IF k \in DOMAIN f THEN f[k] ELSE Undefined
Put(f, k, x) == [j \in (DOMAIN f) \cup {k} |-> IF j = k THEN x ELSE f[j]]
Del(f, k) == [j \in (DOMAIN f) \ {k} |-> f[j]]
EmptyMap == <<>>

\* An array [x0, x1, ...] of scalars as a 0-based function.
ArrOf(s) == [i \in 0..(Len(s) - 1) |-> V(s[i + 1])]
ArrLen(f) == Cardinality(DOMAIN f)

\* ------------------------------------------------------------ error values
\* ErrorType<T, TError>: a string for a scalar field, a nested ErrorMap for a
\* container field; UndefErr is a key that is present and maps to undefined.
Leaf(s) == [tag |-> "leaf", s |-> s, m |-> <<>>]
MapErr(f) == [tag |-> "map", s |-> "", m |-> f]
UndefErr == [tag |-> "undef", s |-> "", m |-> <<>>]

\* Object.keys(error).length for an error value
ErrKeyCount(e) ==
    IF e.tag = "map" THEN Cardinality(DOMAIN e.m)
    ELSE IF e.tag = "leaf" THEN 1 ELSE 0

\* Optional arguments: given = FALSE is `undefined`.
NoErrors == [given |-> FALSE, null |-> FALSE, map |-> EmptyMap]
Errors(f) == [given |-> TRUE, null |-> FALSE, map |-> f]
NullErrors == [given |-> TRUE, null |-> TRUE, map |-> EmptyMap]
NoState == [given |-> FALSE, s |-> FALSE]
State(s) == [given |-> TRUE, s |-> s]
NoError == [given |-> FALSE, e |-> UndefErr]
Error(e) == [given |-> TRUE, e |-> e]

\* ------------------------------------------------------------------ state
VARIABLES
    heap,       \* [Addr -> Cell]: the containers, by object identity
    used,       \* the addresses of the live cells
    nodes,      \* [{"P","C"} -> FormState]: the root form and its child form
    currentId,  \* FormState.currentId, shared by form ids and listener ids
    child,      \* useChildForm: "none", "constructed", "wired", "torn"
    steps,      \* the number of calls still to be made
    last        \* the last call: its name, arguments and listener log

vars == <<heap, used, nodes, currentId, child, steps, last>>

Nodes == {"P", "C"}

\* The state one call works on, threaded through the methods it runs.
\*   log  : the listener invocations and nested setter calls so far
\*   over : a listener-triggered call was nested deeper than MaxDepth
\*   threw: the call raised an Error
Machine == [heap |-> heap, used |-> used, nodes |-> nodes, cur |-> currentId,
            log |-> <<>>, over |-> FALSE, threw |-> FALSE]

\* An entry of the log; for a listener invocation, seen is what the callback
\* finds in the node when it starts.
NoView == [values |-> <<>>, dirty |-> <<>>, errors |-> <<>>]
Event(t, n, id, d) == [t |-> t, n |-> n, id |-> id, d |-> d, seen |-> NoView]
Logged(m, e) == [m EXCEPT !.log = Append(@, e)]

\* ------------------------------------------------------------------- heap
Fresh(m) == CHOOSE a \in Addr \ m.used : \A b \in Addr \ m.used : a <= b
Alloc(m, cell) == [m EXCEPT !.heap[Fresh(m)] = cell, !.used = @ \cup {Fresh(m)}]

ValuesOf(m, n) == m.heap[m.nodes[n].values].f
DefaultsOf(m, n) == m.heap[m.nodes[n].defaultValues].f

\* A container's content, one level below: what memberCopy keeps.
Content(hp, a) ==
    [k \in DOMAIN hp[a].f |->
        IF hp[a].f[k].ref
        THEN [ref |-> TRUE, v |-> 0, c |-> hp[hp[a].f[k].v].f]
        ELSE [ref |-> FALSE, v |-> hp[a].f[k].v, c |-> <<>>]]

\* What a callback of node n finds when it runs: the content of values, the
\* dirty map and the error map.
View(m, n) ==
    [values |-> Content(m.heap, m.nodes[n].values),
     dirty |-> m.nodes[n].dirty, errors |-> m.nodes[n].errors]

\* Object.keys(obj), in the order forEach visits them
RecordKeys == <<"a", "list">>
KeySeq(cell) ==
    IF cell.arr THEN [i \in 1..ArrLen(cell.f) |-> i - 1]
    ELSE SelectSeq(RecordKeys, LAMBDA k : k \in DOMAIN cell.f)

\* The ids of a listener map in the order Object.keys lists them: ids are
\* decimal strings of a growing counter, so ascending, the registration order.
RECURSIVE SortedIds(_)
SortedIds(S) ==
    IF S = {} THEN <<>>
    ELSE LET lo == CHOOSE x \in S : \A y \in S : x <= y
         IN <<lo>> \o SortedIds(S \ {lo})

\* ------------------------------------------------------ FormState, derived
\* FormState.validate: P flags field a, C flags every element, when it holds
\* the largest scalar.
InvalidValue(e) == (~e.ref) /\ e.v = MaxScalar
Validate(n, f) ==
    LET bad == {k \in DOMAIN f : InvalidValue(f[k]) /\ (n = "C" \/ k = "a")}
    IN [k \in bad |-> Leaf("invalid")]

IsDirtyOf(hp, nd) ==
    \/ \E k \in DOMAIN nd.dirty : nd.dirty[k]
    \/ ArrLen(hp[nd.values].f) # ArrLen(hp[nd.defaultValues].f)
IsDirty(m, n) == IsDirtyOf(m.heap, m.nodes[n])

AnyErrorOf(nd) == Cardinality(DOMAIN nd.errors) > 0

\* memberCopy(value): a new cell with the members of the old one
MemberCopy(m, a) == Alloc(m, m.heap[a])

\* ------------------------------------------------------ FormState, methods
\* Every method takes the machine m, the node n it is called on, its
\* arguments, and the nesting depth d of the call (0 for the caller's own).
RECURSIVE Invoke(_, _, _, _, _)
RECURSIVE FireIds(_, _, _, _, _, _, _)
RECURSIVE FireKeys(_, _, _, _, _, _)
RECURSIVE setValues(_, _, _, _, _, _, _, _)
RECURSIVE setValueInternal(_, _, _, _, _, _, _, _)

\* listeners![id](isDefault): ids is the Object.keys snapshot; anyMap tells
\* which of the node's two listener maps the ids are looked up in.
FireIds(m, n, anyMap, ids, flag, skipId, d) ==
    IF ids = <<>> \/ m.threw THEN m
    ELSE IF Head(ids) = skipId
         THEN FireIds(m, n, anyMap, Tail(ids), flag, skipId, d)
    ELSE LET map == IF anyMap THEN m.nodes[n].anyListeners
                    ELSE m.nodes[n].listeners
             hit == {l \in map : l.id = Head(ids)}
         IN IF hit = {}
            THEN [m EXCEPT !.threw = TRUE]   \* undefined is not a function
            ELSE LET l == CHOOSE x \in hit : TRUE
                     m1 == Invoke(m, n, l, flag, d)
                 IN FireIds(m1, n, anyMap, Tail(ids), flag, skipId, d)

\* fireListener as it would be without `if (id !== skipId)`
fireListenerNoSkip(m, n, key, isDefault, skipId, d) ==
    LET ids == SortedIds({l.id : l \in {x \in m.nodes[n].listeners : x.key = key}})
    IN FireIds(m, n, FALSE, ids, isDefault, NoId, d)

\* A fireListener for which a skipId suppresses every listener of the key.
fireListenerSkipAll(m, n, key, isDefault, skipId, d) ==
    LET ids == SortedIds({l.id : l \in {x \in m.nodes[n].listeners : x.key = key}})
    IN IF skipId # NoId THEN m ELSE FireIds(m, n, FALSE, ids, isDefault, skipId, d)

\* FormState.fireListener(key, isDefault, skipId)
fireListener(m, n, key, isDefault, skipId, d) ==
    LET ids == SortedIds({l.id : l \in {x \in m.nodes[n].listeners : x.key = key}})
    IN FireIds(m, n, FALSE, ids, isDefault, skipId, d)

FireKeys(m, n, keys, isDefault, skipId, d) ==
    IF keys = <<>> \/ m.threw THEN m
    ELSE FireKeys(fireListener(m, n, Head(keys), isDefault, skipId, d),
                  n, Tail(keys), isDefault, skipId, d)

\* FormState.fireAllNormalListeners(isDefault, skipId)
fireAllNormalListeners(m, n, isDefault, skipId, d) ==
    FireKeys(m, n, KeySeq(m.heap[m.nodes[n].values]), isDefault, skipId, d)

\* fireAnyListeners as it would be without `if (id !== skipId)`
fireAnyListenersNoSkip(m, n, setValuesWasUsed, skipId, d) ==
    IF m.threw THEN m
    ELSE FireIds(m, n, TRUE, SortedIds({l.id : l \in m.nodes[n].anyListeners}),
                 setValuesWasUsed, NoId, d)

\* FormState.fireAnyListeners(setValuesWasUsed, skipId)
fireAnyListeners(m, n, setValuesWasUsed, skipId, d) ==
    IF m.threw THEN m
    ELSE FireIds(m, n, TRUE, SortedIds({l.id : l \in m.nodes[n].anyListeners}),
                 setValuesWasUsed, skipId, d)

\* recalculateDirty as it would be without the `continue` for containers
recalculateDirtyAll(m, n) ==
    LET vals == ValuesOf(m, n)
        defs == DefaultsOf(m, n)
    IN [m EXCEPT !.nodes[n].dirty =
            [k \in (DOMAIN @) \cup (DOMAIN vals) |->
                IF k \in DOMAIN vals THEN Get(defs, k) # vals[k] ELSE @[k]]]

\* FormState.recalculateDirty()
recalculateDirty(m, n) ==
    LET vals == ValuesOf(m, n)
        defs == DefaultsOf(m, n)
        scalar == {k \in DOMAIN vals : ~vals[k].ref}
        old == m.nodes[n].dirty
    IN [m EXCEPT !.nodes[n].dirty =
            [k \in (DOMAIN old) \cup scalar |->
                IF k \in scalar THEN Get(defs, k) # vals[k] ELSE old[k]]]

\* setValues as it would be with the validator run before the assignment
setValuesValidatingOld(m, n, x, errors, isDefault, state, skipId, d) ==
    LET m0 == Logged(m, Event("setValues", n, skipId, d))
    IN IF errors.null \/ x = Null THEN [m0 EXCEPT !.threw = TRUE]
       ELSE
       LET m1 == IF isDefault
                 THEN LET c == MemberCopy(m0, x)
                      IN [c EXCEPT !.nodes[n].defaultValues = x,
                                   !.nodes[n].values = Fresh(m0),
                                   !.nodes[n].dirty = EmptyMap]
                 ELSE [m0 EXCEPT !.nodes[n].values = x]
           m2 == [m1 EXCEPT !.nodes[n].errors =
                      IF errors.given THEN errors.map
                      ELSE Validate(n, ValuesOf(m0, n)),
                    !.nodes[n].state = IF state.given THEN state.s ELSE @]
           m3 == fireAllNormalListeners(m2, n, isDefault, skipId, d)
           m4 == IF m3.threw THEN m3 ELSE recalculateDirty(m3, n)
       IN fireAnyListeners(m4, n, TRUE, skipId, d)

\* A setValues that only warns about a null errors argument and treats it as
\* undefined.
setValuesNullLogged(m, n, x, errors, isDefault, state, skipId, d) ==
    LET m0 == Logged(m, Event("setValues", n, skipId, d))
    IN IF x = Null THEN [m0 EXCEPT !.threw = TRUE]
       ELSE
       LET m1 == IF isDefault
                 THEN LET c == MemberCopy(m0, x)
                      IN [c EXCEPT !.nodes[n].defaultValues = x,
                                   !.nodes[n].values = Fresh(m0),
                                   !.nodes[n].dirty = EmptyMap]
                 ELSE [m0 EXCEPT !.nodes[n].values = x]
           m2 == [m1 EXCEPT !.nodes[n].errors =
                      IF errors.given /\ ~errors.null THEN errors.map
                      ELSE Validate(n, ValuesOf(m1, n)),
                    !.nodes[n].state = IF state.given THEN state.s ELSE @]
           m3 == fireAllNormalListeners(m2, n, isDefault, skipId, d)
           m4 == IF m3.threw THEN m3 ELSE recalculateDirty(m3, n)
       IN fireAnyListeners(m4, n, TRUE, skipId, d)

\* A setValues that recomputes dirty before it fires the per-key listeners.
setValuesDirtyFirst(m, n, x, errors, isDefault, state, skipId, d) ==
    LET m0 == Logged(m, Event("setValues", n, skipId, d))
    IN IF errors.null \/ x = Null THEN [m0 EXCEPT !.threw = TRUE]
       ELSE
       LET m1 == IF isDefault
                 THEN LET c == MemberCopy(m0, x)
                      IN [c EXCEPT !.nodes[n].defaultValues = x,
                                   !.nodes[n].values = Fresh(m0),
                                   !.nodes[n].dirty = EmptyMap]
                 ELSE [m0 EXCEPT !.nodes[n].values = x]
           m2 == [m1 EXCEPT !.nodes[n].errors =
                      IF errors.given THEN errors.map
                      ELSE Validate(n, ValuesOf(m1, n)),
                    !.nodes[n].state = IF state.given THEN state.s ELSE @]
           m3 == recalculateDirty(m2, n)
           m4 == fireAllNormalListeners(m3, n, isDefault, skipId, d)
       IN fireAnyListeners(m4, n, TRUE, skipId, d)

\* FormState.setValues(setValues, errors, isDefault, state, skipId)
setValues(m, n, x, errors, isDefault, state, skipId, d) ==
    LET m0 == Logged(m, Event("setValues", n, skipId, d))
    IN IF errors.null \/ x = Null THEN [m0 EXCEPT !.threw = TRUE]
       ELSE
       LET m1 == IF isDefault
                 THEN LET c == MemberCopy(m0, x)
                      IN [c EXCEPT !.nodes[n].defaultValues = x,
                                   !.nodes[n].values = Fresh(m0),
                                   !.nodes[n].dirty = EmptyMap]
                 ELSE [m0 EXCEPT !.nodes[n].values = x]
           m2 == [m1 EXCEPT !.nodes[n].errors =
                      IF errors.given THEN errors.map
                      ELSE Validate(n, ValuesOf(m1, n)),
                    !.nodes[n].state = IF state.given THEN state.s ELSE @]
           m3 == fireAllNormalListeners(m2, n, isDefault, skipId, d)
           m4 == IF m3.threw THEN m3 ELSE recalculateDirty(m3, n)
       IN fireAnyListeners(m4, n, TRUE, skipId, d)

\* FormState.setValueInternal(key, value, dirty, error, skipId)
setValueInternal(m, n, key, value, dirty, error, skipId, d) ==
    LET m0 == Logged(m, Event("setValueInternal", n, skipId, d))
        a == m0.nodes[n].values
        m1 == [m0 EXCEPT !.heap[a].f = Put(@, key, value),
                         !.nodes[n].dirty = Put(@, key, dirty)]
        m2 == [m1 EXCEPT !.nodes[n].errors =
                  IF error.given
                  THEN IF ErrKeyCount(error.e) = 0 THEN Del(@, key)
                       ELSE Put(@, key, error.e)
                  ELSE Validate(n, ValuesOf(m1, n))]
        m3 == fireListener(m2, n, key, FALSE, skipId, d)
    IN fireAnyListeners(m3, n, FALSE, skipId, d)

\* FormState.listen(key, listener) / listenAny(listener): the id is m.cur
listen(m, n, key, kind, skip) ==
    [m EXCEPT !.nodes[n].listeners =
                  @ \cup {[id |-> m.cur, key |-> key, kind |-> kind, skip |-> skip]},
              !.cur = @ + 1]
listenAny(m, n, kind, skip) ==
    [m EXCEPT !.nodes[n].anyListeners =
                  @ \cup {[id |-> m.cur, kind |-> kind, skip |-> skip]},
              !.cur = @ + 1]

\* FormState.ignore(key, id) / ignoreAny(id)
ignore(m, n, key, id) ==
    [m EXCEPT !.nodes[n].listeners = {l \in @ : ~(l.key = key /\ l.id = id)}]
ignoreAny(m, n, id) ==
    [m EXCEPT !.nodes[n].anyListeners = {l \in @ : l.id # id}]

\* The callbacks a listener map can hold:
\*   "ui"   : setRender(r => r + 1) of useListener / useAnyListener
\*   "down" : useChildForm's parent.listen(name, ...) callback
\*   "up"   : useChildForm's ref.current.listenAny(...) callback
\*   "sub" / "subAny"     : a caller's callback that registers a listener
\*   "unsub" / "unsubAny" : a caller's callback that ignores listener l.skip
\* l.skip is the id the closure captured (`id` for "down", `parentId` for "up"),
\* which the callback passes on as skipId.
\* A callback that passes no skipId on
CapturedSkipNone(l) == NoId
CapturedSkip(l) == l.skip

Invoke(m, n, l, flag, d) ==
    LET m0 == Logged(m, [Event(l.kind, n, l.id, d) EXCEPT !.seen = View(m, n)])
    IN IF l.kind = "ui" THEN m0
       ELSE IF l.kind = "sub" THEN listen(m0, n, l.key, "ui", NoId)
       ELSE IF l.kind = "subAny" THEN listenAny(m0, n, "ui", NoId)
       ELSE IF l.kind = "unsub" THEN ignore(m0, n, l.key, l.skip)
       ELSE IF l.kind = "unsubAny" THEN ignoreAny(m0, n, l.skip)
       ELSE IF d >= MaxDepth THEN [m0 EXCEPT !.over = TRUE]
       ELSE IF l.kind = "down"
       THEN LET pv == Get(ValuesOf(m0, "P"), ParentKey)
                pe == m0.nodes["P"].errors
            IN setValues(m0, "C",
                         IF pv.ref THEN pv.v ELSE Null,
                         IF ParentKey \in DOMAIN pe /\ pe[ParentKey].tag = "map"
                         THEN Errors(pe[ParentKey].m) ELSE Errors(EmptyMap),
                         flag, State(m0.nodes["P"].state), CapturedSkip(l), d + 1)
       ELSE setValueInternal(m0, "P", ParentKey, R(m0.nodes["C"].values),
                             IsDirty(m0, "C"), Error(MapErr(m0.nodes["C"].errors)),
                             CapturedSkip(l), d + 1)

\* setValue as it would be without `if (this.values[key] === value) return`
setValueAlways(m, n, key, value) ==
    setValueInternal(m, n, key, value, Get(DefaultsOf(m, n), key) # value,
                     NoError, NoId, 0)

\* A setValue that compares containers with the default by content.
setValueByContent(m, n, key, value) ==
    LET dflt == Get(DefaultsOf(m, n), key)
    IN IF Get(ValuesOf(m, n), key) = value THEN m
       ELSE setValueInternal(m, n, key, value,
                             IF dflt.ref /\ value.ref
                             THEN m.heap[dflt.v].f # m.heap[value.v].f
                             ELSE dflt # value,
                             NoError, NoId, 0)

\* FormState.setValue(key, value)
setValue(m, n, key, value) ==
    IF Get(ValuesOf(m, n), key) = value THEN m
    ELSE setValueInternal(m, n, key, value, Get(DefaultsOf(m, n), key) # value,
                          NoError, NoId, 0)

\* FormState.unsetValue(key)
unsetValue(m, n, key) ==
    LET m1 == [m EXCEPT !.nodes[n].dirty = Del(@, key),
                        !.nodes[n].errors = Del(@, key)]
        m2 == fireListener(m1, n, key, FALSE, NoId, 0)
    IN fireAnyListeners(m2, n, FALSE, NoId, 0)

\* A setErrors without the early return on two empty maps.
setErrorsAlways(m, n, errors, skipId) ==
    LET e == IF errors.given THEN errors.map ELSE Validate(n, ValuesOf(m, n))
        m1 == [m EXCEPT !.nodes[n].errors = e]
        m2 == fireAllNormalListeners(m1, n, FALSE, skipId, 0)
    IN fireAnyListeners(m2, n, TRUE, skipId, 0)

\* FormState.setErrors(errors, skipId)
setErrors(m, n, errors, skipId) ==
    LET e == IF errors.given THEN errors.map ELSE Validate(n, ValuesOf(m, n))
    IN IF DOMAIN m.nodes[n].errors = {} /\ DOMAIN e = {} THEN m
       ELSE LET m1 == [m EXCEPT !.nodes[n].errors = e]
                m2 == fireAllNormalListeners(m1, n, FALSE, skipId, 0)
            IN fireAnyListeners(m2, n, TRUE, skipId, 0)

\* this.errors[name] === error: strings compare by value, a nested map passed
\* by the caller is a new object, undefined equals an absent entry.
SameError(errs, name, error) ==
    IF name \in DOMAIN errs
    THEN error.tag # "map" /\ errs[name] = error
    ELSE error.tag = "undef"

\* FormState.setError(name, error)
setError(m, n, name, error) ==
    IF SameError(m.nodes[n].errors, name, error) THEN m
    ELSE LET m1 == [m EXCEPT !.nodes[n].errors = Put(@, name, error)]
             m2 == fireAllNormalListeners(m1, n, FALSE, NoId, 0)
         IN fireAnyListeners(m2, n, TRUE, NoId, 0)

\* FormState.setState(state)
setState(m, n, s) ==
    LET m1 == [m EXCEPT !.nodes[n].state = s]
        m2 == fireAllNormalListeners(m1, n, FALSE, NoId, 0)
    IN fireAnyListeners(m2, n, FALSE, NoId, 0)

\* reset as it would be with isDefault left out
resetNotDefault(m, n, x) ==
    setValues(m, n, IF x = Null THEN m.nodes[n].defaultValues ELSE x,
              Errors(EmptyMap), FALSE, NoState, NoId, 0)
\* reset as it would be with errors left undefined (the validator runs)
resetValidating(m, n, x) ==
    setValues(m, n, IF x = Null THEN m.nodes[n].defaultValues ELSE x,
              NoErrors, TRUE, NoState, NoId, 0)

\* FormState.reset(values): values ?? this.defaultValues
reset(m, n, x) ==
    setValues(m, n, IF x = Null THEN m.nodes[n].defaultValues ELSE x,
              Errors(EmptyMap), TRUE, NoState, NoId, 0)

\* new FormState(initialValues, defaultValues)
NewFormState(initialValues, defaultValues, id) ==
    [formId |-> id, values |-> initialValues, defaultValues |-> defaultValues,
     dirty |-> EmptyMap, errors |-> EmptyMap, state |-> FALSE,
     listeners |-> {}, anyListeners |-> {}]

\* A constructor that checks defaultValues only.
FormStateConstructorDefaultsOnly(m, n, initialValues, defaultValues) ==
    IF defaultValues = Null
    THEN [m EXCEPT !.threw = TRUE]
    ELSE [m EXCEPT !.nodes[n] = NewFormState(initialValues, defaultValues, m.cur),
                   !.cur = @ + 1]

\* new FormState(initialValues, defaultValues) for node n; Null is an absent
\* argument.
FormStateConstructor(m, n, initialValues, defaultValues) ==
    IF defaultValues = Null \/ initialValues = Null
    THEN [m EXCEPT !.threw = TRUE]
    ELSE [m EXCEPT !.nodes[n] = NewFormState(initialValues, defaultValues, m.cur),
                   !.cur = @ + 1]

\* ------------------------------------------------- ArrayField's mutators
\* [...form.values, value]
Appended(f, value) == Put(f, ArrLen(f), value)
\* newValues.splice(index, 1)
Spliced(f, index) ==
    [i \in 0..(ArrLen(f) - 2) |-> IF i < index THEN f[i] ELSE f[i + 1]]
\* [values[index], values[newIndex]] = [values[newIndex], values[index]]
SwappedValues(f, index, newIndex) ==
    [i \in DOMAIN f |-> IF i = index THEN f[newIndex]
                        ELSE IF i = newIndex THEN f[index] ELSE f[i]]
\* [errors[index], errors[newIndex]] = [errors[newIndex], errors[index]]:
\* both keys are assigned, an absent entry is read as undefined.
ErrAt(e, i) == IF i \in DOMAIN e THEN e[i] ELSE UndefErr
SwappedErrors(e, index, newIndex) ==
    Put(Put(e, index, ErrAt(e, newIndex)), newIndex, ErrAt(e, index))

append(m, value) ==
    LET m1 == Alloc(m, Cell(TRUE, Appended(ValuesOf(m, "C"), value)))
    IN setValues(m1, "C", Fresh(m), NoErrors, FALSE, NoState, NoId, 0)

\* A remove that renumbers the error entries above the removed index.
removeRenumbering(m, index) ==
    LET m1 == Alloc(m, Cell(TRUE, Spliced(ValuesOf(m, "C"), index)))
        e == m.nodes["C"].errors
        keys == {k \in DOMAIN e : k < index} \cup {k - 1 : k \in {j \in DOMAIN e : j > index}}
    IN setValues(m1, "C", Fresh(m),
                 Errors([k \in keys |-> IF k < index THEN e[k] ELSE e[k + 1]]),
                 FALSE, NoState, NoId, 0)

remove(m, index) ==
    LET m1 == Alloc(m, Cell(TRUE, Spliced(ValuesOf(m, "C"), index)))
    IN setValues(m1, "C", Fresh(m), Errors(Del(m.nodes["C"].errors, index)),
                 FALSE, NoState, NoId, 0)

clear(m) ==
    LET m1 == Alloc(m, Cell(TRUE, <<>>))
    IN setValues(m1, "C", Fresh(m), Errors(EmptyMap), FALSE, NoState, NoId, 0)

\* A swap that exchanges the elements in the child's own sequence.
swapInPlace(m, index, newIndex) ==
    LET a == m.nodes["C"].values
        m1 == [m EXCEPT !.heap[a].f = SwappedValues(@, index, newIndex)]
    IN setValues(m1, "C", a,
                 Errors(SwappedErrors(m.nodes["C"].errors, index, newIndex)),
                 FALSE, NoState, NoId, 0)

swap(m, index, newIndex) ==
    LET m1 == Alloc(m, Cell(TRUE, SwappedValues(ValuesOf(m, "C"), index, newIndex)))
    IN setValues(m1, "C", Fresh(m),
                 Errors(SwappedErrors(m.nodes["C"].errors, index, newIndex)),
                 FALSE, NoState, NoId, 0)

\* ------------------------------------------------------------ useChildForm
\* The render: ref.current = new FormState(memberCopy(parent.values[name]),
\*                             parent.defaultValues[name] ?? parent.values[name])
DeriveChild(m) ==
    LET pv == Get(ValuesOf(m, "P"), ParentKey)
        pd == Get(DefaultsOf(m, "P"), ParentKey)
        m1 == MemberCopy(m, pv.v)
    IN [m1 EXCEPT !.nodes["C"] =
                      NewFormState(Fresh(m), IF pd.ref THEN pd.v ELSE pv.v, m.cur),
                  !.cur = @ + 1]

\* The effect: parent.listen, ref.current.listenAny, then
\* ref.current.setValues(memberCopy(parent.values[name]), parent.errors[name])
WireChild(m) ==
    LET parentId == m.cur
        id == m.cur + 1
        m1 == listen(m, "P", ParentKey, "down", id)
        m2 == listenAny(m1, "C", "up", parentId)
        pv == Get(ValuesOf(m2, "P"), ParentKey)
        pe == m2.nodes["P"].errors
        m3 == MemberCopy(m2, pv.v)
    IN setValues(m3, "C", Fresh(m2),
                 IF ParentKey \in DOMAIN pe /\ pe[ParentKey].tag = "map"
                 THEN Errors(pe[ParentKey].m) ELSE NoErrors,
                 FALSE, NoState, NoId, 0)

\* The effect's cleanup: i.ignoreAny(id); parent.ignore(name, parentId);
\* parent.unsetValue(name)
DownOf(m) == CHOOSE l \in m.nodes["P"].listeners : l.kind = "down"
TeardownChild(m) ==
    LET l == DownOf(m)
        m1 == ignoreAny(m, "C", l.skip)
        m2 == ignore(m1, "P", ParentKey, l.id)
    IN unsetValue(m2, "P", ParentKey)

\* --------------------------------------------------- committing one call
\* After a call the cells no node can reach are garbage; the live ones are
\* renumbered in the order the nodes reach them, so that a state is named by
\* its shape (which references are the same object), not by its addresses.
RECURSIVE Dedupe(_, _)
Dedupe(s, seen) ==
    IF s = <<>> THEN <<>>
    ELSE IF Head(s) \in seen THEN Dedupe(Tail(s), seen)
    ELSE <<Head(s)>> \o Dedupe(Tail(s), seen \cup {Head(s)})

RefsOf(hp, a) ==
    LET ks == SelectSeq(KeySeq(hp[a]), LAMBDA k : hp[a].f[k].ref)
    IN [i \in 1..Len(ks) |-> hp[a].f[ks[i]].v]

RECURSIVE RefsOfAll(_, _)
RefsOfAll(hp, s) ==
    IF s = <<>> THEN <<>> ELSE RefsOf(hp, Head(s)) \o RefsOfAll(hp, Tail(s))

\* The nodes' containers, then what those refer to, then the caller's.
Order(m, extra) ==
    LET roots == SelectSeq(<<m.nodes["P"].values, m.nodes["P"].defaultValues,
                             m.nodes["C"].values, m.nodes["C"].defaultValues>>,
                           LAMBDA a : a # Null)
        more == SelectSeq(extra, LAMBDA a : a # Null)
    IN Dedupe(roots \o RefsOfAll(m.heap, roots) \o more \o RefsOfAll(m.heap, more), {})

Pi(ord, a) ==
    IF \E i \in 1..Len(ord) : ord[i] = a
    THEN CHOOSE i \in 1..Len(ord) : ord[i] = a
    ELSE Null

Renamed(ord, cell) ==
    Cell(cell.arr, [k \in DOMAIN cell.f |->
                       IF cell.f[k].ref THEN R(Pi(ord, cell.f[k].v)) ELSE cell.f[k]])

\* errs tells whether the call passes an errors argument to setValues.
Call(op, n, key, idx, v, x, flag) ==
    [op |-> op, n |-> n, key |-> key, idx |-> idx, v |-> v, x |-> x, flag |-> flag,
     errs |-> FALSE, nullErrs |-> FALSE]
WithErrors(call, given) == [call EXCEPT !.errs = given]
WithNullErrors(call) == [call EXCEPT !.errs = TRUE, !.nullErrs = TRUE]

\* call.x, the container the caller passed, stays a root for one more state.
Settled(m, call) ==
    LET ord == Order(m, <<call.x>>)
    IN [heap |-> [a \in Addr |-> IF a <= Len(ord) THEN Renamed(ord, m.heap[ord[a]])
                                ELSE EmptyCell],
        used |-> 1..Len(ord),
        nodes |-> [n \in Nodes |->
                      [m.nodes[n] EXCEPT !.values = Pi(ord, @),
                                         !.defaultValues = Pi(ord, @)]],
        cur |-> m.cur,
        last |-> [op |-> call.op, n |-> call.n, key |-> call.key, idx |-> call.idx,
                  v |-> IF call.v.ref THEN R(Pi(ord, call.v.v)) ELSE call.v,
                  x |-> Pi(ord, call.x), flag |-> call.flag, errs |-> call.errs,
                  nullErrs |-> call.nullErrs,
                  log |-> m.log, over |-> m.over, threw |-> m.threw]]

Commit(m, call) ==
    LET r == Settled(m, call)
    IN /\ steps > 0
       /\ heap' = r.heap
       /\ used' = r.used
       /\ nodes' = r.nodes
       /\ currentId' = r.cur
       /\ steps' = steps - 1
       /\ last' = r.last

\* ------------------------------------------------------------------ inputs
\* The sequences a caller passes in: one element short of the longest
InputSeqs == [1..(MaxLen - 1) -> Scalars]
\* The sequence the form is created with: 1, 2, ... of the longest length
FirstSeq == [i \in 1..MaxLen |-> ((i - 1) % MaxScalar) + 1]
Indexes == 0..(MaxLen - 1)

\* A new object {a, list} whose list is a new array
NewRecord(m, a, s) ==
    LET m1 == Alloc(m, Cell(TRUE, ArrOf(s)))
    IN Alloc(m1, Cell(FALSE, [a |-> V(a), list |-> R(Fresh(m))]))
NewRecordAddr(m) == Fresh(Alloc(m, EmptyCell))
\* {...form.values, a}: a new object whose list is the parent's current list
SpreadRecord(m, a) ==
    Alloc(m, Cell(FALSE, Put(ValuesOf(m, "P"), "a", V(a))))
NewArray(m, s) == Alloc(m, Cell(TRUE, ArrOf(s)))

\* Explicit error maps a caller passes: with truthy entries only.
ManualP == [list |-> MapErr([i \in {0} |-> Leaf("manual")])]
ManualC == [i \in {0} |-> Leaf("manual")]
Manual(n) == IF n = "P" THEN ManualP ELSE ManualC
ErrorArgs(n) == {NoErrors, Errors(Manual(n))}

\* ------------------------------------------------------------------- Init
Blank == [heap |-> [x \in Addr |-> EmptyCell], used |-> {},
          nodes |-> [n \in Nodes |-> NewFormState(Null, Null, -1)],
          cur |-> 0, log |-> <<>>, over |-> FALSE, threw |-> FALSE]

\* useForm(values): ref.current = new FormState(memberCopy(values), values)
UseForm(a, s) ==
    LET m1 == NewRecord(Blank, a, s)
        values == NewRecordAddr(Blank)
        m2 == MemberCopy(m1, values)
    IN [m2 EXCEPT !.nodes["P"] = NewFormState(Fresh(m1), values, m2.cur),
                  !.cur = @ + 1]

\* useForm's effect, ref.current.setValues(values, {}, true), with the values
\* the form was created with
UseFormEffect(m) ==
    setValues(m, "P", m.nodes["P"].defaultValues, Errors(EmptyMap), TRUE,
              NoState, NoId, 0)

\* The renders of a mounted tree: the root form, its child form for the list
\* field, one useListener on the parent's list field and on the child's first
\* element, one useAnyListener on each.
Rendered(a, s) ==
    LET m1 == DeriveChild(UseForm(a, s))
        m2 == listen(m1, "P", ParentKey, "ui", NoId)
        m3 == listenAny(m2, "P", "ui", NoId)
        m4 == listen(m3, "C", 0, "ui", NoId)
    IN listenAny(m4, "C", "ui", NoId)

\* Then the effects of useForm and useChildForm: in the order of the hooks
\* when one component calls both, the child's first when the child form
\* belongs to a component below.
Mounted(a, s, childFirst) ==
    LET m == IF childFirst THEN UseFormEffect(WireChild(Rendered(a, s)))
             ELSE WireChild(UseFormEffect(Rendered(a, s)))
    IN [m EXCEPT !.log = <<>>]

Start(m, phase, budget) ==
    LET r == Settled(m, Call("init", "P", "", -1, Undefined, Null, FALSE))
    IN /\ heap = r.heap
       /\ used = r.used
       /\ nodes = r.nodes
       /\ currentId = r.cur
       /\ child = phase
       /\ steps = budget
       /\ last = r.last

Init ==
    \E a \in Scalars, childFirst \in BOOLEAN :
        Start(Mounted(a, FirstSeq, childFirst), "wired", MaxSteps)

InitRoot == \E a \in Scalars : Start(UseForm(a, FirstSeq), "none", MountSteps)

\* ---------------------------------------------------------------- actions
\* The child form takes calls once its effect has run (its component is
\* mounted), and still holds its state after the cleanup.
ChildLive == child \in {"wired", "torn"}
Live(n) == n = "P" \/ ChildLive

PSetValue(v) ==
    /\ Commit(setValue(Machine, "P", "a", V(v)),
              Call("setValue", "P", "a", -1, V(v), Null, FALSE))
    /\ UNCHANGED child

CSetValue(i, v) ==
    /\ ChildLive
    /\ i \in DOMAIN ValuesOf(Machine, "C")
    /\ Commit(setValue(Machine, "C", i, V(v)),
              Call("setValue", "C", "", i, V(v), Null, FALSE))
    /\ UNCHANGED child

\* setValues({a: s[1], list: [...s]}, errors, isDefault)
PSetValues(s, errors, isDefault) ==
    /\ LET m1 == NewRecord(Machine, Head(s), s)
           x == NewRecordAddr(Machine)
       IN Commit(setValues(m1, "P", x, errors, isDefault, NoState, NoId, 0),
                 WithErrors(Call("setValues", "P", "", -1, Undefined, x, isDefault),
                            errors.given))
    /\ UNCHANGED child

\* setValues({...form.values, a})
PSetValuesSpread(a) ==
    /\ LET m1 == SpreadRecord(Machine, a)
           x == Fresh(Machine)
       IN Commit(setValues(m1, "P", x, NoErrors, FALSE, NoState, NoId, 0),
                 Call("setValues", "P", "a", -1, V(a), x, FALSE))
    /\ UNCHANGED child

CSetValues(s, errors, isDefault) ==
    /\ ChildLive
    /\ LET m1 == NewArray(Machine, s)
           x == Fresh(Machine)
       IN Commit(setValues(m1, "C", x, errors, isDefault, NoState, NoId, 0),
                 WithErrors(Call("setValues", "C", "", -1, Undefined, x, isDefault),
                            errors.given))
    /\ UNCHANGED child

PReset(s) ==
    /\ LET m1 == NewRecord(Machine, Head(s), s)
           x == NewRecordAddr(Machine)
       IN Commit(reset(m1, "P", x), WithErrors(Call("reset", "P", "", -1, Undefined, x, TRUE), TRUE))
    /\ UNCHANGED child

CReset(s) ==
    /\ ChildLive
    /\ LET m1 == NewArray(Machine, s)
           x == Fresh(Machine)
       IN Commit(reset(m1, "C", x), WithErrors(Call("reset", "C", "", -1, Undefined, x, TRUE), TRUE))
    /\ UNCHANGED child

\* reset() without an argument
ResetDefaults(n) ==
    /\ Live(n)
    /\ Commit(reset(Machine, n, Null),
              WithErrors(Call("reset", n, "", -1, Undefined, Null, FALSE), TRUE))
    /\ UNCHANGED child

\* setState({isSubmitting: !isSubmitting})
SetState(n) ==
    /\ Live(n)
    /\ Commit(setState(Machine, n, ~nodes[n].state),
              Call("setState", n, "", -1, Undefined, Null, FALSE))
    /\ UNCHANGED child

SetErrors(n, errors) ==
    /\ Live(n)
    /\ Commit(setErrors(Machine, n, errors, NoId),
              Call("setErrors", n, "", -1, Undefined, Null, errors.given))
    /\ UNCHANGED child

\* form.setErrors(errors, id) by the component that registered the listener id
UiIds(n) ==
    {l.id : l \in {x \in nodes[n].listeners \cup nodes[n].anyListeners : x.kind = "ui"}}
SetErrorsSkipping(n, id) ==
    /\ Live(n)
    /\ id \in UiIds(n)
    /\ Commit(setErrors(Machine, n, Errors(Manual(n)), id),
              Call("setErrorsSkipping", n, "", id, Undefined, Null, TRUE))
    /\ UNCHANGED child

\* setError(name, error): a string for the scalar field, a nested map for the
\* list field
PSetError(key) ==
    /\ Commit(setError(Machine, "P", key,
                       IF key = ParentKey THEN ManualP[ParentKey] ELSE Leaf("manual")),
              Call("setError", "P", key, -1, Undefined, Null, FALSE))
    /\ UNCHANGED child

CSetError(i) ==
    /\ ChildLive
    /\ Commit(setError(Machine, "C", i, Leaf("manual")),
              Call("setError", "C", "", i, Undefined, Null, FALSE))
    /\ UNCHANGED child

PUnsetValue(key) ==
    /\ Commit(unsetValue(Machine, "P", key),
              Call("unsetValue", "P", key, -1, Undefined, Null, FALSE))
    /\ UNCHANGED child

CUnsetValue(i) ==
    /\ ChildLive
    /\ Commit(unsetValue(Machine, "C", i),
              Call("unsetValue", "C", "", i, Undefined, Null, FALSE))
    /\ UNCHANGED child

\* The sequence mutators of ArrayField. The caller keeps hold of the sequence
\* that was the child's values before the call (last.x).
AppendItem(v) ==
    /\ ChildLive
    /\ ArrLen(ValuesOf(Machine, "C")) < MaxLen
    /\ Commit(append(Machine, V(v)),
              Call("append", "C", "", -1, V(v), nodes["C"].values, FALSE))
    /\ UNCHANGED child

RemoveItem(i) ==
    /\ ChildLive
    /\ i \in DOMAIN ValuesOf(Machine, "C")
    /\ Commit(remove(Machine, i),
              WithErrors(Call("remove", "C", "", i, Undefined, nodes["C"].values, FALSE),
                         TRUE))
    /\ UNCHANGED child

ClearItems ==
    /\ ChildLive
    /\ Commit(clear(Machine),
              WithErrors(Call("clear", "C", "", -1, Undefined, nodes["C"].values, FALSE),
                         TRUE))
    /\ UNCHANGED child

SwapItems(i, j) ==
    /\ ChildLive
    /\ {i, j} \subseteq DOMAIN ValuesOf(Machine, "C")
    /\ Commit(swap(Machine, i, j),
              WithErrors(Call("swap", "C", "", i, V(j), nodes["C"].values, FALSE), TRUE))
    /\ UNCHANGED child

Derive ==
    /\ child = "none"
    /\ Commit(DeriveChild(Machine), Call("derive", "C", "", -1, Undefined, Null, FALSE))
    /\ child' = "constructed"

Wire ==
    /\ child \in {"constructed", "torn"}
    /\ currentId + 2 <= MaxId
    /\ Commit(WireChild(Machine), Call("wire", "C", "", -1, Undefined, Null, FALSE))
    /\ child' = "wired"

Teardown ==
    /\ child = "wired"
    /\ Commit(TeardownChild(Machine),
              Call("teardown", "C", "", -1, Undefined, Null, FALSE))
    /\ child' = "torn"

\* useListener(form, name) / useAnyListener(form): the effect registers a
\* callback that re-renders; the cleanup ignores it.
PUseListener(key) ==
    /\ currentId < MaxId
    /\ Commit(listen(Machine, "P", key, "ui", NoId),
              Call("listen", "P", key, -1, Undefined, Null, FALSE))
    /\ UNCHANGED child

CUseListener(i) ==
    /\ child # "none"
    /\ currentId < MaxId
    /\ Commit(listen(Machine, "C", i, "ui", NoId),
              Call("listen", "C", "", i, Undefined, Null, FALSE))
    /\ UNCHANGED child

UseAnyListener(n) ==
    /\ n = "C" => child # "none"
    /\ currentId < MaxId
    /\ Commit(listenAny(Machine, n, "ui", NoId),
              Call("listenAny", n, "", -1, Undefined, Null, FALSE))
    /\ UNCHANGED child

UnuseListener(n) ==
    /\ \E l \in nodes[n].listeners :
          /\ l.kind = "ui"
          /\ Commit(ignore(Machine, n, l.key, l.id),
                    Call("ignore", n, "", -1, Undefined, Null, FALSE))
    /\ UNCHANGED child

UnuseAnyListener(n) ==
    /\ \E l \in nodes[n].anyListeners :
          /\ l.kind = "ui"
          /\ Commit(ignoreAny(Machine, n, l.id),
                    Call("ignoreAny", n, "", -1, Undefined, Null, FALSE))
    /\ UNCHANGED child

\* setValue(name, [...s]) on the list field
PSetValueList(s) ==
    /\ LET m1 == NewArray(Machine, s)
           x == Fresh(Machine)
       IN Commit(setValue(m1, "P", ParentKey, R(x)),
                 Call("setValue", "P", ParentKey, x, R(x), Null, FALSE))
    /\ UNCHANGED child

\* form.setValue("list", c) with a sequence c that one of the forms already
\* holds; last.idx keeps the address c had before the call.
PSetValueHeld(c) ==
    /\ c \in used
    /\ heap[c].arr
    /\ Commit(setValue(Machine, "P", ParentKey, R(c)),
              Call("setValue", "P", ParentKey, c, R(c), Null, FALSE))
    /\ UNCHANGED child

\* The calls a mounted parent and child take.
Next ==
    \/ \E v \in Scalars : PSetValue(v)
    \/ \E s \in InputSeqs : PSetValueList(s)
    \/ \E c \in Addr : PSetValueHeld(c)
    \/ \E i \in Indexes, v \in Scalars : CSetValue(i, v)
    \/ \E s \in InputSeqs, e \in ErrorArgs("P"), d \in BOOLEAN : PSetValues(s, e, d)
    \/ \E a \in Scalars : PSetValuesSpread(a)
    \/ \E s \in InputSeqs, e \in ErrorArgs("C"), d \in BOOLEAN : CSetValues(s, e, d)
    \/ \E s \in InputSeqs : PReset(s)
    \/ \E s \in InputSeqs : CReset(s)
    \/ \E n \in Nodes : ResetDefaults(n)
    \/ \E n \in Nodes : SetState(n)
    \/ \E n \in Nodes : \E e \in ErrorArgs(n) : SetErrors(n, e)
    \/ \E key \in {"a", "list"} : PSetError(key)
    \/ \E i \in Indexes : CSetError(i)
    \/ \E key \in {"a", "list"} : PUnsetValue(key)
    \/ \E i \in Indexes : CUnsetValue(i)
    \/ \E v \in Scalars : AppendItem(v)
    \/ \E i \in Indexes : RemoveItem(i)
    \/ ClearItems
    \/ \E i \in Indexes, j \in Indexes : SwapItems(i, j)
    \/ Teardown
    \/ Wire
    \/ CUseListener(MaxLen - 1)
    \/ \E n \in Nodes, id \in 0..MaxId : SetErrorsSkipping(n, id)

Spec == Init /\ [][Next]_vars

\* The calls made while the tree is mounted and unmounted: the hooks' renders,
\* effects and cleanups, between updates of the root form.
\* form.setValues(values, null)
PSetValuesNull(s) ==
    /\ LET m1 == NewRecord(Machine, Head(s), s)
           x == NewRecordAddr(Machine)
       IN Commit(setValues(m1, "P", x, NullErrors, FALSE, NoState, NoId, 0),
                 WithNullErrors(Call("setValues", "P", "", -1, Undefined, x, FALSE)))
    /\ UNCHANGED child

\* form.setValues(undefined)
SetValuesAbsent(n) ==
    /\ Live(n)
    /\ Commit(setValues(Machine, n, Null, NoErrors, FALSE, NoState, NoId, 0),
              Call("setValues", n, "", -1, Undefined, Null, FALSE))
    /\ UNCHANGED child

\* new FormState(initialValues, defaultValues) for the list field, written
\* out by hand, where either argument may be absent: a copy of
\* parent.values.list and parent.defaultValues.list when present.
Construct(noInitial, noDefault) ==
    /\ child = "none"
    /\ LET pv == Get(ValuesOf(Machine, "P"), ParentKey)
           pd == Get(DefaultsOf(Machine, "P"), ParentKey)
           m1 == IF noInitial THEN Machine ELSE MemberCopy(Machine, pv.v)
           iv == IF noInitial THEN Null ELSE Fresh(Machine)
           dv == IF noDefault THEN Null ELSE pd.v
           m2 == FormStateConstructor(m1, "C", iv, dv)
       IN /\ pv.ref /\ pd.ref
          /\ Commit(m2, Call("new", "C", "", -1,
                             IF noDefault THEN Undefined ELSE R(dv), iv, FALSE))
          /\ child' = IF m2.threw THEN "none" ELSE "constructed"

MountNext ==
    \/ \E v \in Scalars : PSetValue(v)
    \/ \E s \in InputSeqs : PSetValues(s, NoErrors, FALSE)
    \/ \E s \in InputSeqs : PReset(s)
    \/ \E key \in {"a", "list"} : PUseListener(key)
    \/ \E i \in Indexes : CUseListener(i)
    \/ \E n \in Nodes : UseAnyListener(n)
    \/ \E n \in Nodes : UnuseListener(n)
    \/ \E n \in Nodes : UnuseAnyListener(n)
    \/ Derive
    \/ Wire
    \/ Teardown
    \/ \E v \in Scalars : AppendItem(v)
    \/ \E n \in Nodes : ResetDefaults(n)
    \/ \E s \in InputSeqs : PSetValuesNull(s)
    \/ \E n \in Nodes : SetValuesAbsent(n)
    \/ \E noInitial, noDefault \in BOOLEAN : Construct(noInitial, noDefault)

MountSpec == InitRoot /\ [][MountNext]_vars

\* ------------------------------------------- callbacks that change the registry
\* form.listen("a", () => form.listen("a", ...)): a callback that registers
ListenSub ==
    /\ currentId < MaxId
    /\ Commit(listen(Machine, "P", "a", "sub", NoId),
              Call("listen", "P", "a", -1, Undefined, Null, FALSE))
    /\ UNCHANGED child

ListenAnySub ==
    /\ currentId < MaxId
    /\ Commit(listenAny(Machine, "P", "subAny", NoId),
              Call("listenAny", "P", "", -1, Undefined, Null, FALSE))
    /\ UNCHANGED child

\* The ids a callback registered now can hold: those of the listeners there
\* are, and that of the listener registered next (a variable assigned later,
\* as `id` in useChildForm's effect).
Targets(ls) == {l.id : l \in ls} \cup {currentId + 1}

\* form.listen("a", () => form.ignore("a", target))
ListenUnsub(target) ==
    /\ currentId < MaxId
    /\ target \in Targets({l \in nodes["P"].listeners : l.key = "a"})
    /\ Commit(listen(Machine, "P", "a", "unsub", target),
              Call("listen", "P", "a", target, Undefined, Null, FALSE))
    /\ UNCHANGED child

\* form.listenAny(() => form.ignoreAny(target))
ListenAnyUnsub(target) ==
    /\ currentId < MaxId
    /\ target \in Targets(nodes["P"].anyListeners)
    /\ Commit(listenAny(Machine, "P", "unsubAny", target),
              Call("listenAny", "P", "", target, Undefined, Null, FALSE))
    /\ UNCHANGED child

InitDispatch == \E a \in Scalars : Start(UseForm(a, FirstSeq), "none", DispatchSteps)

DispatchNext ==
    \/ \E v \in Scalars : PSetValue(v)
    \/ PUnsetValue("a")
    \/ PUseListener("a")
    \/ UseAnyListener("P")
    \/ ListenSub
    \/ ListenAnySub
    \/ \E t \in 0..MaxId : ListenUnsub(t)
    \/ \E t \in 0..MaxId : ListenAnyUnsub(t)

DispatchSpec == InitDispatch /\ [][DispatchNext]_vars

\* ------------------------------------------------------- a mounted ArrayField
\* The list field holds any sequence of up to SeqLen scalars; its elements
\* equal to MaxScalar carry a validation error.
MutatorSeqs == UNION {[1..len -> Scalars] : len \in 1..SeqLen}
MutatorIndexes == 0..(SeqLen - 1)

InitMutator ==
    \E s \in MutatorSeqs, childFirst \in BOOLEAN :
        Start(Mounted(1, s, childFirst), "wired", MutatorSteps)

\* swap(i, j); swap(i, j) in one handler
SwapTwice(i, j) ==
    /\ {i, j} \subseteq DOMAIN ValuesOf(Machine, "C")
    /\ Commit(swap(swap(Machine, i, j), i, j),
              WithErrors(Call("swapTwice", "C", "", i, V(j), Null, FALSE), TRUE))
    /\ UNCHANGED child

MutatorNext ==
    \/ \E v \in Scalars : AppendItem(v)
    \/ \E i \in MutatorIndexes : RemoveItem(i)
    \/ ClearItems
    \/ \E i \in MutatorIndexes, j \in MutatorIndexes : SwapItems(i, j)
    \/ \E i \in MutatorIndexes : CSetError(i)
    \/ \E i \in MutatorIndexes, j \in MutatorIndexes : SwapTwice(i, j)

MutatorSpec == InitMutator /\ [][MutatorNext]_vars

\* ------------------------------------- the Listener-based Form of part_000
\* The earlier Form: three ObjectListeners (values, defaultValues, dirty), each
\* with its own listener maps and its own id counter, and a useChildForm that
\* wires parent and child without skip ids. In this part nodes[n] is a Form:
\* nodes[n][w] is its ObjectListener w, whose values is the address of _values.
Which == {"values", "defaultValues", "dirty"}
\* A boolean entry of a dirty map: 1 is true, -1 is false.
B(b) == V(IF b THEN 1 ELSE -1)

FormMachine == [heap |-> heap, used |-> used, forms |-> nodes,
                log |-> <<>>, over |-> FALSE]
Fired(kind, n, w, id, d) == [t |-> kind, n |-> n, w |-> w, id |-> id, d |-> d]

\* new ObjectListener(initialValues)
NewObjectListener(a) ==
    [values |-> a, listeners |-> {}, anyListeners |-> {}, counter |-> 0]

\* Listener.listen(key, listener) / Listener.listenAny(listener)
ListenerListen(m, n, w, key, kind) ==
    [m EXCEPT !.forms[n][w].listeners =
                  @ \cup {[id |-> m.forms[n][w].counter, key |-> key, kind |-> kind]},
              !.forms[n][w].counter = @ + 1]
ListenerListenAny(m, n, w, kind) ==
    [m EXCEPT !.forms[n][w].anyListeners =
                  @ \cup {[id |-> m.forms[n][w].counter, kind |-> kind]},
              !.forms[n][w].counter = @ + 1]

\* changedKeys(a, b, false): the keys of the longer key list (b's when they
\* are equally long) whose values differ by ===
changedKeys(hp, a, b) ==
    IF a = b THEN <<>>
    ELSE LET aKeys == KeySeq(hp[a])
             bKeys == KeySeq(hp[b])
             largest == IF Len(aKeys) > Len(bKeys) THEN aKeys ELSE bKeys
             Differs(k) == Get(hp[a].f, k) # Get(hp[b].f, k)
         IN SelectSeq(largest, Differs)

\* Form.dirty: some entry of the dirty map is true
FormDirty(m, n) ==
    LET f == m.heap[m.forms[n]["dirty"].values].f
    IN \E k \in DOMAIN f : f[k] = B(TRUE)

RECURSIVE Callback(_, _, _, _, _)
RECURSIVE FireAll(_, _, _, _, _, _)
RECURSIVE fireMultiple(_, _, _, _, _)

\* Listener.fire(key): the listeners of the key, then the any-listeners, each
\* list in the order of Object.keys
fire(m, n, w, key, d) ==
    LET ids == SortedIds({l.id : l \in {x \in m.forms[n][w].listeners : x.key = key}})
        m1 == FireAll(m, n, w, FALSE, ids, d)
    IN FireAll(m1, n, w, TRUE,
               SortedIds({l.id : l \in m1.forms[n][w].anyListeners}), d)

\* ObjectListener.update(key, value)
update(m, n, w, key, value, d) ==
    LET a == m.forms[n][w].values
        cur == Get(m.heap[a].f, key)
    IN IF (~cur.ref) /\ cur = value THEN m
       ELSE fire([m EXCEPT !.heap[a].f = Put(@, key, value)], n, w, key, d)

\* ObjectListener.updateAll(values)
updateAll(m, n, w, x, d) ==
    LET a == m.forms[n][w].values
    IN IF a = x THEN m
       ELSE fireMultiple([m EXCEPT !.forms[n][w].values = x], n, w,
                         changedKeys(m.heap, a, x), d)

\* Listener.fireMultiple(keys)
fireMultiple(m, n, w, keys, d) ==
    IF keys = <<>> THEN m
    ELSE fireMultiple(fire(m, n, w, Head(keys), d), n, w, Tail(keys), d)

\* One registered callback: a component's setRender ("ui"), or one of the
\* callbacks of useChildForm's effect.
Callback(m, n, w, l, d) ==
    LET m0 == Logged(m, Fired(l.kind, n, w, l.id, d))
    IN IF l.kind = "ui" THEN m0
       ELSE IF d >= MaxDepth THEN [m0 EXCEPT !.over = TRUE]
       ELSE IF l.kind = "down"
       THEN updateAll(m0, "C", w,
                      Get(m0.heap[m0.forms["P"][w].values].f, ParentKey).v, d + 1)
       ELSE IF l.kind = "up"
       THEN update(m0, "P", w, ParentKey, R(m0.forms["C"][w].values), d + 1)
       ELSE update(m0, "P", "dirty", ParentKey, B(FormDirty(m0, "C")), d + 1)

FireAll(m, n, w, anyMap, ids, d) ==
    IF ids = <<>> THEN m
    ELSE LET map == IF anyMap THEN m.forms[n][w].anyListeners
                    ELSE m.forms[n][w].listeners
             l == CHOOSE x \in map : x.id = Head(ids)
         IN FireAll(Callback(m, n, w, l, d), n, w, anyMap, Tail(ids), d)

\* Form.setValues(values)
FormSetValues(m, n, x) == updateAll(m, n, "values", x, 0)

\* Form.setValue(key, value)
FormSetValue(m, n, key, value) ==
    LET m1 == update(m, n, "values", key, value, 0)
        dflt == Get(m1.heap[m1.forms[n]["defaultValues"].values].f, key)
    IN update(m1, n, "dirty", key, B(dflt # value), 0)

\* new Form(values, defaultValues)
NewForm(m, n, values, defaultValues) ==
    LET m1 == Alloc(m, m.heap[values])
        m2 == Alloc(m1, m1.heap[defaultValues])
        m3 == Alloc(m2, Cell(FALSE, EmptyMap))
    IN [m3 EXCEPT !.forms[n] =
            [w \in Which |->
                NewObjectListener(IF w = "values" THEN Fresh(m)
                                  ELSE IF w = "defaultValues" THEN Fresh(m1)
                                  ELSE Fresh(m2))]]

\* useListener(form, key): its effect registers on the three listeners
ListenerUseListener(m, n, key) ==
    ListenerListen(ListenerListen(ListenerListen(m, n, "dirty", key, "ui"),
                                  n, "values", key, "ui"),
                   n, "defaultValues", key, "ui")

\* useChildForm(parentForm, key): the render creates the child form, the
\* effect registers the five callbacks.
ListenerDeriveChild(m) ==
    NewForm(m, "C",
            Get(m.heap[m.forms["P"]["values"].values].f, ParentKey).v,
            Get(m.heap[m.forms["P"]["defaultValues"].values].f, ParentKey).v)
ListenerWireChild(m) ==
    LET m1 == ListenerListen(m, "P", "values", ParentKey, "down")
        m2 == ListenerListen(m1, "P", "defaultValues", ParentKey, "down")
        m3 == ListenerListenAny(m2, "C", "values", "up")
        m4 == ListenerListenAny(m3, "C", "defaultValues", "up")
    IN ListenerListenAny(m4, "C", "dirty", "upDirty")

\* A component with useForm({a, list: s}), useListener on the list field and
\* useChildForm for it, and below it useListener on the child's first
\* element; the effects of one component run in the order of its hooks.
ListenerMounted(a, s, listenerFirst) ==
    LET m0 == [heap |-> [x \in Addr |-> EmptyCell], used |-> {},
               forms |-> [n \in Nodes |-> [w \in Which |-> NewObjectListener(Null)]],
               log |-> <<>>, over |-> FALSE]
        m1 == NewRecord(m0, a, s)
        m2 == NewForm(m1, "P", NewRecordAddr(m0), NewRecordAddr(m0))
        m3 == ListenerUseListener(ListenerDeriveChild(m2), "C", 0)
    IN IF listenerFirst
       THEN ListenerWireChild(ListenerUseListener(m3, "P", ParentKey))
       ELSE ListenerUseListener(ListenerWireChild(m3), "P", ParentKey)

FormCall(op, n, replaced, changed) ==
    [op |-> op, n |-> n, replaced |-> replaced, changed |-> changed,
     log |-> <<>>, over |-> FALSE]

InitListener ==
    \E a \in Scalars, listenerFirst \in BOOLEAN :
        LET m == ListenerMounted(a, FirstSeq, listenerFirst)
        IN /\ heap = m.heap
           /\ used = m.used
           /\ nodes = m.forms
           /\ currentId = 0
           /\ child = "wired"
           /\ steps = ListenerSteps
           /\ last = FormCall("init", "P", FALSE, 0)

FormCommit(m, call) ==
    /\ steps > 0
    /\ steps' = steps - 1
    /\ heap' = m.heap
    /\ used' = m.used
    /\ nodes' = m.forms
    /\ last' = [call EXCEPT !.log = m.log, !.over = m.over]
    /\ UNCHANGED <<currentId, child>>

\* The sequences a caller passes, and how many of the child's keys a new
\* list changes
ListenerSeqs == UNION {[1..len -> Scalars] : len \in 1..MaxLen}
Room(k) == Cardinality(used) + k <= MaxAddr
ChildChanged(m, x) == Len(changedKeys(m.heap, m.forms["C"]["values"].values, x))

\* form.setValues({a, list: s}) with a new list
ParentSetValues(a, s) ==
    /\ Room(2)
    /\ LET m1 == NewRecord(FormMachine, a, s)
           x == NewRecordAddr(FormMachine)
       IN FormCommit(FormSetValues(m1, "P", x),
                     FormCall("setValues", "P", TRUE, ChildChanged(m1, Fresh(FormMachine))))

\* form.setValues({...form.values, a}): the list is the object it was
ParentSetValuesSpread(a) ==
    /\ Room(1)
    /\ LET f == heap[nodes["P"]["values"].values].f
           m1 == Alloc(FormMachine, Cell(FALSE, Put(f, "a", V(a))))
       IN FormCommit(FormSetValues(m1, "P", Fresh(FormMachine)),
                     FormCall("setValues", "P", FALSE, 0))

\* form.valuesListener.update("list", s) with a new list
ParentUpdate(s) ==
    /\ Room(1)
    /\ LET m1 == NewArray(FormMachine, s)
           x == Fresh(FormMachine)
       IN FormCommit(update(m1, "P", "values", ParentKey, R(x), 0),
                     FormCall("update", "P", TRUE, ChildChanged(m1, x)))

\* form.setValue("a", v) on the parent, child.setValue(i, v) on the child
ParentSetValue(v) ==
    FormCommit(FormSetValue(FormMachine, "P", "a", V(v)),
               FormCall("setValue", "P", FALSE, 0))
ChildSetValue(i, v) ==
    /\ i \in DOMAIN heap[nodes["C"]["values"].values].f
    /\ FormCommit(FormSetValue(FormMachine, "C", i, V(v)),
                  FormCall("setValue", "C", FALSE, 0))

\* child.setValues(s)
ChildSetValues(s) ==
    /\ Room(1)
    /\ LET m1 == NewArray(FormMachine, s)
       IN FormCommit(FormSetValues(m1, "C", Fresh(FormMachine)),
                     FormCall("setValues", "C", FALSE, 0))

ListenerNext ==
    \/ \E a \in Scalars, s \in ListenerSeqs : ParentSetValues(a, s)
    \/ \E a \in Scalars : ParentSetValuesSpread(a)
    \/ \E s \in ListenerSeqs : ParentUpdate(s)
    \/ \E v \in Scalars : ParentSetValue(v)
    \/ \E i \in Indexes, v \in Scalars : ChildSetValue(i, v)
    \/ \E s \in ListenerSeqs : ChildSetValues(s)

ListenerSpec == InitListener /\ [][ListenerNext]_vars

\* ------------------------------------------------------ reading the last call
Values(n) == heap[nodes[n].values].f
Defaults(n) == heap[nodes[n].defaultValues].f

\* The entries of last.log of kind t on node n
Hits(t, n) == {i \in DOMAIN last.log : last.log[i].t = t /\ last.log[i].n = n}
\* Invocations of the parent-to-child and of the child-to-parent callback
DownCalls == Cardinality(Hits("down", "P"))
UpCalls == Cardinality(Hits("up", "C"))
\* Calls of C.setValues and of P.setValueInternal made by a callback
PushedDown == Cardinality({i \in Hits("setValues", "C") : last.log[i].d > 0})
PushedUp == Cardinality({i \in Hits("setValueInternal", "P") : last.log[i].d > 0})
\* How often the listener with this id was invoked
ListenerKinds == {"ui", "down", "up", "sub", "subAny", "unsub", "unsubAny"}
Invocations(n, id) ==
    Cardinality({i \in DOMAIN last.log :
                    /\ last.log[i].t \in ListenerKinds
                    /\ last.log[i].n = n
                    /\ last.log[i].id = id})

\* The call was made on P, with the child wired, and fired P's listeners of
\* the child's key.
KeyListenerIds(n, key) == {l.id : l \in {x \in nodes[n].listeners : x.key = key}}
ParentOriginated ==
    /\ last.n = "P"
    /\ child = "wired"
    /\ \E i \in DOMAIN last.log :
          /\ last.log[i].n = "P"
          /\ last.log[i].d = 0
          /\ last.log[i].t \in {"ui", "down"}
          /\ last.log[i].id \in KeyListenerIds("P", ParentKey)

\* The call was a mutation made on C, with the child wired, that changed it.
ChildMutators == {"setValue", "setValues", "append", "remove", "clear", "swap"}
ChildOriginated ==
    /\ last.n = "C"
    /\ child = "wired"
    /\ last.op \in ChildMutators
    /\ last.log # <<>>

\* ------------------------------------------------------------ the properties
\* C1: a call on the parent that fires the parent's listeners of the child's
\* key invokes the parent-to-child callback exactly once, which calls
\* C.setValues once; the child-to-parent callback is not invoked and
\* P.setValueInternal is not called back.
C1_DownOnceNoBounce ==
    ParentOriginated =>
        /\ DownCalls = 1
        /\ PushedDown = 1
        /\ UpCalls = 0
        /\ PushedUp = 0

C1_Witness ==
    /\ ParentOriginated
    /\ last.op = "setState"
    /\ DownCalls = 1
    /\ PushedDown = 1

\* C2: after a mutation made on the child returns, the parent's field holds
\* the content of the child's values, every any-change listener of the parent
\* was invoked exactly once, and the parent-to-child callback did not run
\* (C.setValues was not re-entered).
C2_ChildPushReachesParent ==
    ChildOriginated =>
        /\ Get(Values("P"), ParentKey).ref
        /\ heap[Get(Values("P"), ParentKey).v].f = Values("C")
        /\ \A l \in nodes["P"].anyListeners : Invocations("P", l.id) = 1
        /\ DownCalls = 0
        /\ PushedDown = 0

C2_Witness ==
    /\ ChildOriginated
    /\ last.op = "remove"
    /\ ArrLen(Values("C")) = 1
    /\ heap[Get(Values("P"), ParentKey).v].f = Values("C")
    /\ PushedUp = 1

\* C3: every call of a setter on the parent or on the child returns after
\* finitely many listener invocations: a callback of the composition calls a
\* setter, and no listener that setter fires calls a setter again.
C3_CallsTerminate ==
    /\ ~last.over
    /\ \A i \in DOMAIN last.log : last.log[i].d <= 1

C3_Witness ==
    /\ ~last.over
    /\ last.op = "swap"
    /\ \E i \in DOMAIN last.log :
          last.log[i].t = "setValueInternal" /\ last.log[i].d = 1

\* C4: after a mutation made on the child has been pushed to the parent, the
\* child's values and the value of the parent's field are distinct objects.
C4_DistinctObjects ==
    (ChildOriginated /\ UpCalls > 0) =>
        Get(Values("P"), ParentKey) # R(nodes["C"].values)

\* A truthy, non-empty error: a string, or a non-empty map of strings
Truthy(e) ==
    \/ e.tag = "leaf"
    \/ /\ e.tag = "map"
       /\ DOMAIN e.m # {}
       /\ \A k \in DOMAIN e.m : e.m[k].tag = "leaf"

\* C5: every key of a node's errors maps to a truthy, non-empty error, so
\* anyError is true only when a field holds an error.
C5_ErrorsTruthy ==
    \A n \in Nodes : \A k \in DOMAIN nodes[n].errors : Truthy(nodes[n].errors[k])

\* C6 (as stated): a key is present in a node's dirty map only if the node's
\* value at that key is a scalar.
C6_DirtyKeysScalar ==
    \A n \in Nodes : \A k \in DOMAIN nodes[n].dirty : ~Get(Values(n), k).ref

\* The call replaced the defaults: reset, or setValues with isDefault
DefaultsReplaced == last.op = "reset" \/ (last.op = "setValues" /\ last.flag)

\* C6: a replace of the defaults (reset, setValues with isDefault) leaves a
\* dirty entry for the scalar-valued keys only, but the child-to-parent
\* callback writes one for the child's key: after a mutation made on the
\* child, the parent's dirty entry for that key is present and is the child's
\* isDirty.
C6_DirtyOfContainerKey ==
    /\ DefaultsReplaced =>
          \A k \in DOMAIN nodes[last.n].dirty : ~Get(Values(last.n), k).ref
    /\ ChildOriginated =>
          /\ ParentKey \in DOMAIN nodes["P"].dirty
          /\ nodes["P"].dirty[ParentKey] = IsDirtyOf(heap, nodes["C"])

C6_Witness ==
    /\ ChildOriginated
    /\ Get(Values("P"), ParentKey).ref
    /\ ParentKey \in DOMAIN nodes["P"].dirty
    /\ nodes["P"].dirty[ParentKey]

\* The call constructed a node: useForm's render, useChildForm's render
Constructed == last.op \in {"init", "derive"}

\* C7 (as stated): isDirty is false right after a node is constructed and
\* right after reset returns.
C7_CleanAfterConstruction ==
    (Constructed \/ last.op = "reset") => ~IsDirtyOf(heap, nodes[last.n])

\* C7: right after construction the dirty map is empty, and isDirty tells
\* whether values and defaultValues have different numbers of keys: never for
\* the root form of useForm, and for a derived child exactly when the parent's
\* field and its default differ in length; right after reset returns isDirty is
\* false, also on a parent whose child is wired.
C7_DirtyAfterConstruction ==
    /\ Constructed => nodes[last.n].dirty = EmptyMap
    /\ last.op = "init" => ~IsDirtyOf(heap, nodes["P"])
    /\ last.op = "derive" =>
          (IsDirtyOf(heap, nodes["C"]) <=>
              ArrLen(heap[Get(Values("P"), ParentKey).v].f)
                  # ArrLen(heap[Get(Defaults("P"), ParentKey).v].f))
    /\ last.op = "reset" => ~IsDirtyOf(heap, nodes[last.n])

C7_Witness ==
    /\ last.op = "derive"
    /\ nodes["C"].dirty = EmptyMap
    /\ IsDirtyOf(heap, nodes["C"])

\* C8 (as stated): after reset the values have the content of the defaults,
\* errors is empty and the dirty map is empty.
C8_DirtyEmptyAfterReset ==
    last.op = "reset" =>
        /\ Values(last.n) = Defaults(last.n)
        /\ nodes[last.n].errors = EmptyMap
        /\ nodes[last.n].dirty = EmptyMap

\* The node after reset: values is a new object with the content of
\* defaultValues, which is the argument when one was given.
AfterReset ==
    last.op = "reset" =>
        /\ Values(last.n) = Defaults(last.n)
        /\ nodes[last.n].values # nodes[last.n].defaultValues
        /\ last.x # Null => nodes[last.n].defaultValues = last.x
        /\ nodes[last.n].errors = EmptyMap
        /\ nodes[last.n].dirty =
               [k \in {j \in DOMAIN Values(last.n) : ~Values(last.n)[j].ref} |-> FALSE]
\* reset() without an argument leaves the content of defaultValues as it was.
ResetKeepsDefaults ==
    (last'.op = "reset" /\ last'.x = Null) =>
        Content(heap', nodes'[last'.n].defaultValues)
            = Content(heap, nodes[last'.n].defaultValues)

\* C8: after reset(x) values is a new object with the content of x,
\* defaultValues is x, errors is empty and the dirty map holds false for every
\* scalar-valued key of values and nothing else; reset() does the same with
\* the defaultValues the node has, which stay as they are.
C8_ResetRoundTrip == [](AfterReset) /\ [][ResetKeepsDefaults]_vars

C8_Witness ==
    /\ last.op = "reset"
    /\ last.x # Null
    /\ nodes[last.n].defaultValues = last.x
    /\ nodes[last.n].dirty # EmptyMap
    /\ \A k \in DOMAIN nodes[last.n].dirty : ~nodes[last.n].dirty[k]

\* What can be observed of a node: the content of values and defaultValues,
\* and its maps and callbacks.
Observed(n) ==
    [values |-> Content(heap, nodes[n].values),
     defaultValues |-> Content(heap, nodes[n].defaultValues),
     dirty |-> nodes[n].dirty, errors |-> nodes[n].errors,
     state |-> nodes[n].state,
     listeners |-> nodes[n].listeners, anyListeners |-> nodes[n].anyListeners]

\* The step left this node as it was: the same objects with the same content,
\* the same maps and callbacks.
Untouched(n) ==
    /\ nodes'[n] = nodes[n]
    /\ nodes[n].values # Null =>
          /\ heap'[nodes[n].values] = heap[nodes[n].values]
          /\ heap'[nodes[n].defaultValues] = heap[nodes[n].defaultValues]
          /\ Observed(n)' = Observed(n)

\* The key of the setValue call that leads to the next state
KeyOfLast == IF last'.n = "P" THEN last'.key ELSE last'.idx
\* setValue(k, v) with a scalar v === values[k]
SameValue ==
    /\ last'.op = "setValue"
    /\ ~last'.v.ref
    /\ Get(Values(last'.n), KeyOfLast) = last'.v
\* setValue(k, v) with a scalar v !== values[k]
ChangedValue ==
    /\ last'.op = "setValue"
    /\ ~last'.v.ref
    /\ Get(Values(last'.n), KeyOfLast) # last'.v

\* C9: setValue(k, v) with a scalar v === values[k] invokes no listener and
\* leaves the nodes (values, dirty, errors, state) and every container as
\* they were.
C9_SetValueSameIsNoOp ==
    [][SameValue => (last'.log = <<>> /\ \A n \in Nodes : Untouched(n))]_vars

C9_Witness ==
    /\ last.op = "setValue"
    /\ last.log = <<>>
    /\ ~last.v.ref
    /\ Get(Values(last.n), IF last.n = "P" THEN last.key ELSE last.idx) = last.v

\* What C10 promises of one setValue(k, v)
SetValueEffect ==
    LET n == last'.n
        k == KeyOfLast
        v == last'.v
        old == Content(heap, nodes[n].values)
        new == Content(heap', nodes'[n].values)
        defs == heap'[nodes'[n].defaultValues].f
    IN /\ k \in DOMAIN new /\ new[k] = [ref |-> FALSE, v |-> v.v, c |-> <<>>]
       /\ \A j \in (DOMAIN old) \ {k} : j \in DOMAIN new /\ new[j] = old[j]
       /\ DOMAIN new = (DOMAIN old) \cup {k}
       /\ k \in DOMAIN nodes'[n].dirty
       /\ nodes'[n].dirty[k] = (Get(defs, k) # v)
       /\ \A j \in (DOMAIN nodes[n].dirty) \ {k} :
             j \in DOMAIN nodes'[n].dirty /\ nodes'[n].dirty[j] = nodes[n].dirty[j]
       /\ DOMAIN nodes'[n].dirty = (DOMAIN nodes[n].dirty) \cup {k}
       /\ (Get(defs, k) # v) => IsDirtyOf(heap', nodes'[n])

\* C10: setValue(k, v) with a scalar v !== values[k] sets values[k] to v and
\* keeps the other values, sets dirty[k] to (defaultValues[k] !== v) and keeps
\* the other dirty entries, and isDirty is true when v !== defaultValues[k].
C10_SetValueChanged == [][ChangedValue => SetValueEffect]_vars

\* The call was setValues(v, undefined, false): by that name, or as append
ValidatedReplace ==
    /\ last.op \in {"setValues", "append"}
    /\ ~last.flag
    /\ ~last.errs
    /\ ~last.threw

\* C11: when setValues(v, undefined, false) returns on the parent or on the
\* child, the node's errors are what its validator says of v; the push into
\* the child and the listeners of the call leave them so.
C11_ErrorsAreValidated ==
    ValidatedReplace => nodes[last.n].errors = Validate(last.n, Values(last.n))

C11_Witness ==
    /\ ValidatedReplace
    /\ last.n = "P"
    /\ child = "wired"
    /\ PushedDown = 1
    /\ nodes["P"].errors # EmptyMap
    /\ nodes["P"].errors = Validate("P", Values("P"))

\* The subscriptions a change of this key of P is due to reach: the callbacks
\* registered for the key and the any-change callbacks.
RegisteredOn(key) ==
    {l.id : l \in {x \in nodes["P"].listeners : x.key = key}}
        \cup {l.id : l \in nodes["P"].anyListeners}

\* The callbacks the last call invoked.
Delivered == {last.log[i].id : i \in {j \in DOMAIN last.log : last.log[j].t \in ListenerKinds}}

\* A call on P that changes one key and so dispatches to its callbacks.
SingleKeyChange ==
    /\ ChangedValue \/ last'.op = "unsetValue"
    /\ last'.n = "P"

\* C12: a dispatch completes normally and invokes, once each, exactly the
\* callbacks that were registered when it started, whatever the callbacks
\* register or unregister while it runs.
C12_DispatchSnapshot ==
    [][SingleKeyChange =>
          /\ ~last'.threw
          /\ Delivered' = RegisteredOn(last'.key)
          /\ \A id \in RegisteredOn(last'.key) : Invocations("P", id)' = 1]_vars

\* The ids of the callbacks the last call invoked, in the order of invocation.
IsInvocation(e) == e.t \in ListenerKinds
InvokedSeq ==
    LET inv == SelectSeq(last.log, IsInvocation)
    IN [i \in DOMAIN inv |-> inv[i].id]

\* The callbacks of P for this key in registration order (ids are handed out
\* by one increasing counter), followed by the any-change callbacks in
\* registration order.
KeyThenAny(key) ==
    SortedIds(KeyListenerIds("P", key)) \o SortedIds({l.id : l \in nodes["P"].anyListeners})

\* C13: every single-key change invokes all the callbacks registered for the
\* key in registration order, and after all of them every any-change callback
\* in registration order.
C13_KeyThenAnyInOrder ==
    [][SingleKeyChange => InvokedSeq' = KeyThenAny(last'.key)]_vars

\* Just after the cleanup: no entry for the key, no composition callback.
TornDown ==
    last.op = "teardown" =>
        /\ ParentKey \notin DOMAIN nodes["P"].dirty
        /\ ParentKey \notin DOMAIN nodes["P"].errors
        /\ \A l \in nodes["P"].listeners : l.kind # "down"
        /\ \A l \in nodes["C"].anyListeners : l.kind # "up"

\* The cleanup leaves P.values[k] as it was.
TeardownKeepsValue ==
    last'.op = "teardown" =>
        Content(heap', nodes'["P"].values) = Content(heap, nodes["P"].values)

\* While the child stays torn down, a call on one node leaves the other as it
\* was.
TornApart ==
    (child = "torn" /\ child' = "torn") =>
        /\ last'.n = "P" => Observed("C")' = Observed("C")
        /\ last'.n = "C" => Observed("P")' = Observed("P")

\* C14: the cleanup of a derived child leaves P.dirty and P.errors without an
\* entry for the key and neither composition callback registered, so that
\* later calls on P leave the child unchanged and later calls on the child
\* leave P unchanged, and P.values[k] keeps the last propagated value.
C14_TeardownLeavesNoTrace ==
    /\ []TornDown
    /\ [][TeardownKeepsValue /\ TornApart]_vars

\* new FormState(...) without initialValues or without defaultValues.
ConstructedAbsent == last'.op = "new" /\ (last'.x = Null \/ ~last'.v.ref)

\* setValues(undefined).
SetAbsent == last'.op = "setValues" /\ last'.x = Null

\* C15: absent containers are rejected before any state change: the
\* constructor raises when initialValues or defaultValues is absent, and
\* setValues with absent values raises with values, defaultValues, dirty,
\* errors and state unchanged and no listener invoked.
C15_AbsentRejected ==
    [][/\ ConstructedAbsent =>
             last'.threw /\ child' = "none" /\ \A n \in Nodes : Untouched(n)
       /\ SetAbsent =>
             last'.threw /\ Delivered' = {} /\ \A n \in Nodes : Untouched(n)]_vars

C15_Witness ==
    /\ last.op = "setValues" /\ last.x = Null /\ last.threw
    /\ last.n = "C" /\ child = "wired"
    /\ nodes["C"].anyListeners # {}

\* setValues(v, null)
NullErrorsCall == last'.op = "setValues" /\ last'.nullErrs

\* C16 (as stated): setValues(v, null) does not raise and v is applied.
C16_NullErrorsApplied ==
    [][NullErrorsCall => ~last'.threw /\ nodes'["P"].values = last'.x]_vars

\* C16: setValues(v, null) raises before any state change: values,
\* defaultValues, dirty, errors and state are as before and no listener is
\* invoked.
C16_NullErrorsRejected ==
    [][NullErrorsCall =>
          last'.threw /\ Delivered' = {} /\ \A n \in Nodes : Untouched(n)]_vars

C16_Witness ==
    /\ last.op = "setValues" /\ last.nullErrs /\ last.threw
    /\ heap[last.x].f # Values("P")
    /\ nodes["P"].listeners # {} /\ nodes["P"].anyListeners # {}

\* The parent's field holds the child's values and errors: the sequence with
\* the same content, and the child's error map unless that is empty.
PropagatedToParent ==
    /\ Get(Values("P"), ParentKey).ref
    /\ heap[Get(Values("P"), ParentKey).v].f = Values("C")
    /\ IF nodes["C"].errors = EmptyMap
       THEN ParentKey \notin DOMAIN nodes["P"].errors
       ELSE /\ ParentKey \in DOMAIN nodes["P"].errors
            /\ nodes["P"].errors[ParentKey] = MapErr(nodes["C"].errors)

\* C17: remove(index) leaves the child with the sequence without the element
\* at index, the others in their order, and with the error map without the
\* key index, every other entry under its original key, and both are
\* propagated to the parent's field.
C17_RemoveSplices ==
    [][last'.op = "remove" =>
          LET s == Values("C")
              t == Values("C")'
              e == nodes["C"].errors
              i == last'.idx
          IN /\ ArrLen(t) = ArrLen(s) - 1
             /\ \A k \in DOMAIN t : t[k] = IF k < i THEN s[k] ELSE s[k + 1]
             /\ DOMAIN nodes'["C"].errors = DOMAIN e \ {i}
             /\ \A k \in DOMAIN e \ {i} : nodes'["C"].errors[k] = e[k]
             /\ PropagatedToParent']_vars

\* A removal from the middle of three elements, with an error entry left at
\* an index beyond the new length.
C17_Witness ==
    /\ last.op = "remove" /\ last.idx = 1
    /\ ArrLen(Values("C")) = 2
    /\ Values("C")[0] # Values("C")[1]
    /\ 2 \in DOMAIN nodes["C"].errors
    /\ PropagatedToParent

\* The values after the call are those before it with i and j exchanged.
ValuesExchanged(i, j) ==
    LET s == Values("C")
        t == Values("C")'
    IN /\ DOMAIN t = DOMAIN s
       /\ \A k \in DOMAIN s :
             t[k] = IF k = i THEN s[j] ELSE IF k = j THEN s[i] ELSE s[k]

\* Key k of the error map after the call holds what key from held before it,
\* and nothing when from held nothing.
EntryMoved(from, k) ==
    /\ k \in DOMAIN nodes'["C"].errors <=> from \in DOMAIN nodes["C"].errors
    /\ k \in DOMAIN nodes'["C"].errors => nodes'["C"].errors[k] = nodes["C"].errors[from]

\* C18: swap(i, j) exchanges the elements at i and j and the error entries at
\* i and j, an index whose partner had no entry having none afterwards, and
\* leaves the rest; swapping twice restores the content of the values and the
\* key set of the error map.
C18_SwapExchanges ==
    [][/\ last'.op = "swap" =>
             /\ ValuesExchanged(last'.idx, last'.v.v)
             /\ EntryMoved(last'.v.v, last'.idx)
             /\ EntryMoved(last'.idx, last'.v.v)
             /\ \A k \in MutatorIndexes \ {last'.idx, last'.v.v} : EntryMoved(k, k)
       /\ last'.op = "swapTwice" =>
             /\ Values("C")' = Values("C")
             /\ DOMAIN nodes'["C"].errors = DOMAIN nodes["C"].errors]_vars

SequenceMutators == {"append", "remove", "clear", "swap"}

ContainerSet ==
    /\ last'.op = "setValue" /\ last'.n = "P"
    /\ last'.v.ref
    /\ Get(Values("P"), last'.key) # R(last'.idx)

IsTopInvocation(e) == e.t \in ListenerKinds /\ e.n = last.n /\ e.d = 0
TopEvents == SelectSeq(last.log, IsTopInvocation)
AnyIds(n) == {l.id : l \in nodes[n].anyListeners}

\* C21: setValues invokes the per-key listeners of exactly the keys of the new
\* values, then recomputes dirty for the scalar keys of the new values, then
\* invokes the any-change listeners: every listener sees the new values and
\* errors, a per-key listener the dirty map from before the recomputation, an
\* any-change listener the recomputed one.
C21_ThreePhases ==
    [][(last'.op = "setValues" /\ ~last'.threw) =>
          LET n == last'.n
              evs == TopEvents'
              vals == heap'[nodes'[n].values].f
              defs == heap'[nodes'[n].defaultValues].f
              keyIds == {l.id : l \in {x \in nodes[n].listeners : x.key \in DOMAIN vals}}
              before == IF last'.flag THEN EmptyMap ELSE nodes[n].dirty
          IN /\ {evs[i].id : i \in DOMAIN evs} = keyIds \cup AnyIds(n)
             /\ Len(evs) = Cardinality(keyIds \cup AnyIds(n))
             /\ \A i, j \in DOMAIN evs :
                   (evs[i].id \in AnyIds(n) /\ evs[j].id \in keyIds) => j < i
             /\ \A i \in DOMAIN evs :
                   /\ evs[i].seen.values = Content(heap', nodes'[n].values)
                   /\ evs[i].seen.errors = nodes'[n].errors
                   /\ evs[i].seen.dirty =
                         IF evs[i].id \in keyIds THEN before ELSE nodes'[n].dirty
             /\ \A k \in DOMAIN vals :
                   ~vals[k].ref =>
                       nodes'[n].dirty[k] = (Get(defs, k) # vals[k])]_vars

\* A replacement of the child's values by a shorter sequence: the listener of
\* the missing index was not invoked, the listener of index 0 saw another
\* dirty map than the any-change listeners.
C21_Witness ==
    /\ last.op = "setValues" /\ last.n = "C" /\ ~last.threw
    /\ \E l \in nodes["C"].listeners : l.key \notin DOMAIN Values("C")
    /\ \E i, j \in DOMAIN TopEvents :
          /\ TopEvents[i].id \notin AnyIds("C")
          /\ TopEvents[j].id \in AnyIds("C")
          /\ TopEvents[i].seen.dirty # TopEvents[j].seen.dirty

\* The error map a setErrors call applies: the one given, or what the
\* validator says of the node's values.
GivenErrors == IF last'.flag THEN Manual(last'.n) ELSE Validate(last'.n, Values(last'.n))
SetErrorsNoOp == DOMAIN nodes[last'.n].errors = {} /\ DOMAIN GivenErrors = {}
InvokedIn(log, n, id) ==
    \E i \in DOMAIN log : log[i].t \in ListenerKinds /\ log[i].n = n /\ log[i].id = id

\* C22: setErrors(E) changes nothing and invokes no listener when the node's
\* error map and E (the validator's result when E is omitted) are both empty;
\* otherwise errors becomes E, every per-key listener of every key of values
\* and every any-change listener is invoked, the wired child of a parent ends
\* with errors E[k] (empty without an entry), and after a setErrors on the
\* wired child the parent's errors[k] is the child's error map (absent when
\* that is empty).
C22_SetErrors ==
    [][last'.op = "setErrors" =>
          LET n == last'.n
              E == GivenErrors
              ids == {l.id : l \in {x \in nodes[n].listeners : x.key \in DOMAIN Values(n)}}
                        \cup AnyIds(n)
          IN IF SetErrorsNoOp
             THEN last'.log = <<>> /\ \A x \in Nodes : Untouched(x)
             ELSE /\ nodes'[n].errors = E
                  /\ \A id \in ids : InvokedIn(last'.log, n, id)
                  /\ (n = "P" /\ child = "wired") =>
                        nodes'["C"].errors =
                            IF ParentKey \in DOMAIN E THEN E[ParentKey].m ELSE EmptyMap
                  /\ (n = "C" /\ child = "wired") =>
                        IF DOMAIN nodes'["C"].errors = {}
                        THEN ParentKey \notin DOMAIN nodes'["P"].errors
                        ELSE nodes'["P"].errors[ParentKey] = MapErr(nodes'["C"].errors)]_vars

\* setErrors on the parent with an entry for the list: the callback of the
\* child's key ran and the wired child holds that entry as its error map.
C22_Witness ==
    /\ last.op = "setErrors" /\ last.n = "P" /\ last.flag /\ child = "wired"
    /\ nodes["P"].errors = ManualP
    /\ nodes["C"].errors = ManualP[ParentKey].m
    /\ \E i \in DOMAIN last.log : last.log[i].t = "down" /\ last.log[i].seen.errors = ManualP

\* The subscriptions a call with a skipId has to reach on node n: the per-key
\* listeners of the keys it fires and the any-change listeners, but the one
\* with that id.
Subscriptions(n) == nodes[n].listeners \cup nodes[n].anyListeners
Others(n, keys, skipId) ==
    {l \in Subscriptions(n) :
        /\ l.id # skipId
        /\ l \in nodes[n].listeners => l.key \in keys}
\* Every one of them was invoked by the call logged at position i (0 for the
\* call the application made), at that call's depth.
ReachedAfter(i, n, keys, skipId, d) ==
    \A l \in Others(n, keys, skipId) :
        \E j \in DOMAIN last.log :
            /\ j > i
            /\ last.log[j].t = l.kind /\ last.log[j].n = n
            /\ last.log[j].id = l.id /\ last.log[j].d = d
UniqueIds ==
    /\ \A n \in Nodes : \A l1, l2 \in Subscriptions(n) : l1.id = l2.id => l1 = l2
    /\ \A l1 \in Subscriptions("P"), l2 \in Subscriptions("C") : l1.id # l2.id
    /\ \A n \in Nodes : nodes[n].listeners \cap nodes[n].anyListeners = {}

\* C23: subscription ids are unique over both nodes and both kinds of
\* subscription, and a setValueInternal, setValues or setErrors called with a
\* skipId still invokes every other per-key listener of the keys it fires and
\* every other any-change listener of its node.
C23_SkipSuppressesOne ==
    /\ UniqueIds
    /\ (~last.threw /\ ~last.over) =>
          /\ \A i \in DOMAIN last.log :
                LET e == last.log[i]
                IN (e.t \in {"setValues", "setValueInternal"} /\ e.id # NoId) =>
                      ReachedAfter(i, e.n,
                                   IF e.t = "setValues" THEN DOMAIN Values(e.n)
                                   ELSE {ParentKey},
                                   e.id, e.d)
          /\ last.op = "setErrorsSkipping" =>
                ReachedAfter(0, last.n, DOMAIN Values(last.n), last.idx, 0)

\* The child pushed a change up with the id of the parent's callback as
\* skipId, and the parent's own listener of the list field was invoked.
C23_Witness ==
    /\ last.n = "C" /\ child = "wired" /\ ~last.threw
    /\ \E i, j \in DOMAIN last.log :
          /\ last.log[i].t = "setValueInternal" /\ last.log[i].n = "P"
          /\ last.log[i].id \in {l.id : l \in {x \in nodes["P"].listeners : x.kind = "down"}}
          /\ j > i
          /\ last.log[j].t = "ui" /\ last.log[j].n = "P"
          /\ last.log[j].id \in KeyListenerIds("P", ParentKey)
    /\ DownCalls = 0

\* The call replaced defaults: setValues with isDefault = true or reset, on
\* either node (a call on the parent pushes down to the child).
ReplacesDefaults ==
    \/ last'.op = "reset"
    \/ last'.op = "setValues" /\ last'.flag
DefaultsContent(n) == Content(heap, nodes[n].defaultValues)

\* C24: a call that is not a replace-defaults operation leaves the content
\* of every node's defaultValues as it was, and a node's values and
\* defaultValues are never the same object.
C24_DefaultsOnlyReplaced ==
    [][/\ ~ReplacesDefaults => \A n \in Nodes : DefaultsContent(n)' = DefaultsContent(n)
       /\ \A n \in Nodes : nodes'[n].values # nodes'[n].defaultValues]_vars

\* The parent's dirty flag and error entry for the child's key
ParentDirty == ParentKey \in DOMAIN nodes["P"].dirty /\ nodes["P"].dirty[ParentKey]
ChildDirty == IsDirtyOf(heap, nodes["C"])

\* C25: between calls, while the child is wired to the parent, the parent's
\* dirty[k] is true exactly when the child's isDirty is true.
C25_DirtyMirrorsChild ==
    (child = "wired" /\ ~last.threw) => (ParentDirty <=> ChildDirty)

\* C26: between calls, while the child is wired to the parent, the parent's
\* errors[k] is absent when the child's error map is empty and has the
\* content of the child's error map otherwise.
C26_ErrorsMirrorChild ==
    (child = "wired" /\ ~last.threw) =>
        IF DOMAIN nodes["C"].errors = {}
        THEN ParentKey \notin DOMAIN nodes["P"].errors
        ELSE /\ ParentKey \in DOMAIN nodes["P"].errors
             /\ nodes["P"].errors[ParentKey] = MapErr(nodes["C"].errors)

\* How often the callback id of the parent's valuesListener was invoked
ValuesInvocations(id) ==
    Cardinality({i \in DOMAIN last.log :
                    /\ last.log[i].n = "P" /\ last.log[i].w = "values"
                    /\ last.log[i].id = id})

\* C27: in the Listener-based Form, an update on the parent that replaces the
\* child's field by a new container ends, and has invoked every listener of
\* that field on the parent's valuesListener exactly once.
C27_ParentListenerOnce ==
    last.replaced =>
        /\ ~last.over
        /\ \A l \in nodes["P"]["values"].listeners :
              l.key = ParentKey => ValuesInvocations(l.id) = 1

====
